---- MODULE Spec2Model ----
(***************************************************************************)
(* Model of the calendar availability engine of scheduler-agent:           *)
(* CalendarService in packages/ui/src/index.ts.                            *)
(*                                                                         *)
(* Instants are integers: milliseconds since the model epoch               *)
(* 2024-02-04T00:00:00.000Z, a Sunday.  A time zone is a fixed offset from *)
(* UTC (no DST).  Two inputs of the code are ambient and kept in env:      *)
(*   - hostZone: the zone of the host process, which Date.getMinutes() and *)
(*     Date.setMinutes() use;                                              *)
(*   - hourCycle: what Intl.DateTimeFormat('en-US', {hour12: false})       *)
(*     resolves to.  ECMA-402 up to its 2022 edition resolves it to h24    *)
(*     for en-US (midnight is formatted "24"), later editions to h23       *)
(*     (midnight is "00"); the supported runtimes (Node.js 18+) span both. *)
(***************************************************************************)
EXTENDS Integers, Sequences, FiniteSets, TLC

VARIABLES
    env,          \* [hostZone, hourCycle]: the runtime the service runs on
    inp,          \* the call's arguments, the provider's answer and the clock
    pc,           \* position in findAvailableSlotsAdvanced
    queryState,   \* the free/busy query: "pending" | "resolved" | "rejected"
    busyPeriods,  \* calculateFreeSlotsAdvanced: busyPeriods (sorted)
    currentTime,  \* calculateFreeSlotsAdvanced: currentTime (the cursor)
    freeSlots,    \* calculateFreeSlotsAdvanced: freeSlots
    outcome,      \* "pending" | "returned" | "thrown"
    result,       \* the returned TimeSlot[] when outcome = "returned"
    evaluated,    \* history: candidates that reached the overlap test
    tick,         \* history: parity of the number of loop iterations run
    calendar,     \* the provider's primary calendar: a set of events
    last,         \* the last completed call on the meeting facade
    calls,        \* number of facade calls made
    firstRun,     \* history: the slots an earlier run of this search returned
    queries       \* history: free/busy queries the current search has issued

\* What the availability search leaves alone.
facadeVars == <<calendar, last, calls>>

vars == <<env, inp, pc, queryState, busyPeriods, currentTime, freeSlots,
          outcome, result, evaluated, tick, calendar, last, calls, firstRun,
          queries>>

----------------------------------------------------------------------------
(* Time arithmetic *)

SecondMs == 1000
MinuteMs == 60 * SecondMs
HourMs == 60 * MinuteMs
DayMs == 24 * HourMs

\* The instant of day d (0 = Sunday 2024-02-04), h:m:s.ms UTC.
At(d, h, m, s, ms) == d * DayMs + h * HourMs + m * MinuteMs + s * SecondMs + ms

Zones == {"UTC", "Asia/Kolkata"}

\* A name that is no IANA zone: new Intl.DateTimeFormat(..., {timeZone})
\* throws a RangeError for it.
UnknownZone == "Mars/Olympus"

\* UTC offset of a zone, in minutes.
ZoneOffsetMin(zone) == IF zone = "Asia/Kolkata" THEN 330 ELSE 0

\* Wall-clock milliseconds of an instant in a zone.
LocalMs(t, zone) == t + ZoneOffsetMin(zone) * MinuteMs

\* Date.prototype.getMinutes / getSeconds / getMilliseconds: host-local.
getMinutes(t) == (LocalMs(t, env.hostZone) \div MinuteMs) % 60
getSeconds(t) == (t \div SecondMs) % 60
getMilliseconds(t) == t % SecondMs

\* Date.prototype.setMinutes(min, 0, 0): host-local minutes, seconds, ms.
setMinutes(t, min) == t - (LocalMs(t, env.hostZone) % HourMs) + min * MinuteMs

\* formatter.format(date) is "00".."23" under h23 and "01".."24" under h24;
\* parseInt turns it into the number.
getHourInTimezone(date, timezone) ==
    LET h == (LocalMs(date, timezone) \div HourMs) % 24
    IN  IF h = 0 /\ env.hourCycle = "h24" THEN 24 ELSE h

\* 0 = Sunday .. 6 = Saturday; the epoch is a Sunday.
getDayInTimezone(date, timezone) == (LocalMs(date, timezone) \div DayMs) % 7

\* The en-CA date string YYYY-MM-DD, as the number of the local day: two
\* instants have the same string iff they have the same local day number.
getDateStringInTimezone(date, timezone) == LocalMs(date, timezone) \div DayMs

setHourInTimezone(date, hour, timezone) ==
    LET currentHour == getHourInTimezone(date, timezone)
        hourDiff == hour - currentHour
        shifted == date + hourDiff * 60 * 60 * 1000
        mins == getMinutes(shifted)
        secs == getSeconds(shifted)
        ms == getMilliseconds(shifted)
    IN  shifted - mins * 60 * 1000 - secs * 1000 - ms

getStartHourFromPreference(preference) ==
    IF preference = {"morning"} THEN 9
    ELSE IF preference = {"afternoon"} THEN 13
    ELSE IF preference = {"evening"} THEN 17
    ELSE 9

----------------------------------------------------------------------------
(* The call's normalized constraints: calculateFreeSlotsAdvanced's consts.  *)
(* An optional argument is a set: {} when absent, {v} when present.         *)

Some(opt) == CHOOSE v \in opt : TRUE

slotDuration == inp.duration * 60 * 1000
bufferBefore == inp.bufferBefore * 60 * 1000
bufferAfter == inp.bufferAfter * 60 * 1000
timezone == IF inp.timezone = {} THEN "Asia/Kolkata" ELSE Some(inp.timezone)

\* Variant of startHour that reads notBefore with "||": 0 counts as absent.
startHourFalsy ==
    IF inp.notBefore # {} /\ Some(inp.notBefore) # 0 THEN Some(inp.notBefore)
    ELSE getStartHourFromPreference(inp.timePreference)

startHour ==
    IF inp.notBefore # {} THEN Some(inp.notBefore)
    ELSE getStartHourFromPreference(inp.timePreference)

DefaultEndHour == 18
endHour == IF inp.notAfter # {} THEN Some(inp.notAfter) ELSE DefaultEndHour

userSpecifiedEndHour == inp.notAfter # {}

isToday ==
    getDateStringInTimezone(inp.now, timezone)
        = getDateStringInTimezone(inp.startDate, timezone)

\* Variant of isSingleDaySearch that counts a window of exactly 24 hours.
isSingleDaySearchInclusive ==
    \/ getDateStringInTimezone(inp.startDate, timezone)
           = getDateStringInTimezone(inp.endDate, timezone)
    \/ inp.endDate - inp.startDate <= 24 * 60 * 60 * 1000

isSingleDaySearch ==
    \/ getDateStringInTimezone(inp.startDate, timezone)
           = getDateStringInTimezone(inp.endDate, timezone)
    \/ inp.endDate - inp.startDate < 24 * 60 * 60 * 1000

\* "Round up to next 30-minute slot": the cursor a today search starts at.
RoundUpFromNow(now) ==
    LET minutes == getMinutes(now)
    IN  IF minutes > 0 /\ minutes <= 30 THEN setMinutes(now, 30)
        ELSE IF minutes > 30
             THEN setMinutes(now + (60 - minutes) * 60 * 1000, 0)
             ELSE now

\* currentTime when the loop is entered.
InitialCursor ==
    LET atStartHour == setHourInTimezone(inp.startDate, startHour, timezone)
    IN  IF isToday /\ inp.now > atStartHour
        THEN RoundUpFromNow(inp.now)
        ELSE atStartHour

\* busyPeriods.sort((a, b) => a.start - b.start): a stable insertion sort.
RECURSIVE InsertByStart(_, _)
InsertByStart(sorted, b) ==
    IF sorted = <<>> THEN <<b>>
    ELSE IF b.start < Head(sorted).start THEN <<b>> \o sorted
    ELSE <<Head(sorted)>> \o InsertByStart(Tail(sorted), b)

RECURSIVE SortByStart(_)
SortByStart(periods) ==
    IF periods = <<>> THEN <<>>
    ELSE InsertByStart(SortByStart(SubSeq(periods, 1, Len(periods) - 1)),
                       periods[Len(periods)])

advanceToNextDay(t) ==
    setHourInTimezone(t + 24 * 60 * 60 * 1000, startHour, timezone)

\* Variant of BusyConflicts without the third case (candidate contains busy).
BusyConflictsNoContain(busy, bufferedStart, bufferedEnd) ==
    \/ (bufferedStart >= busy.start /\ bufferedStart < busy.end)
    \/ (bufferedEnd > busy.start /\ bufferedEnd <= busy.end)

\* Variant of BusyConflicts with closed ends: touching counts as a conflict.
BusyConflictsClosed(busy, bufferedStart, bufferedEnd) ==
    \/ (bufferedStart >= busy.start /\ bufferedStart <= busy.end)
    \/ (bufferedEnd >= busy.start /\ bufferedEnd <= busy.end)
    \/ (bufferedStart <= busy.start /\ bufferedEnd >= busy.end)

\* Variant of BusyConflicts without the second case (candidate ends inside).
BusyConflictsNoEndInside(busy, bufferedStart, bufferedEnd) ==
    \/ (bufferedStart >= busy.start /\ bufferedStart < busy.end)
    \/ (bufferedStart <= busy.start /\ bufferedEnd >= busy.end)

\* One busy period against the buffered candidate [bufferedStart, bufferedEnd).
BusyConflicts(busy, bufferedStart, bufferedEnd) ==
    \/ (bufferedStart >= busy.start /\ bufferedStart < busy.end)
    \/ (bufferedEnd > busy.start /\ bufferedEnd <= busy.end)
    \/ (bufferedStart <= busy.start /\ bufferedEnd >= busy.end)

\* Variant of isSlotFree that also consults the calendar other calls write.
isSlotFreeOnCalendar(t) ==
    /\ ~ \E i \in 1..Len(busyPeriods) :
            BusyConflicts(busyPeriods[i], t - bufferBefore,
                          t + slotDuration + bufferAfter)
    /\ ~ \E e \in calendar : t < e.end /\ t + slotDuration > e.start

isSlotFree(t) ==
    LET bufferedStart == t - bufferBefore
        bufferedEnd == t + slotDuration + bufferAfter
    IN  ~ \E i \in 1..Len(busyPeriods) :
            BusyConflicts(busyPeriods[i], bufferedStart, bufferedEnd)

FreeSlotCap == 10
ResultCap == 5

\* Variant of LoopCondition that lets an 11th free slot in.
LoopConditionInclusive ==
    currentTime < inp.endDate /\ Len(freeSlots) <= FreeSlotCap

LoopCondition == currentTime < inp.endDate /\ Len(freeSlots) < FreeSlotCap

\* Variant of SliceResult without the slice.
SliceResultUncapped(slots) == slots

\* freeSlots.slice(0, 5)
SliceResult(slots) ==
    SubSeq(slots, 1, IF Len(slots) < ResultCap THEN Len(slots) ELSE ResultCap)

\* The slot-end pruning test of the loop.
SlotEndExceeds(t) ==
    LET slotEnd == t + slotDuration + bufferAfter
        slotEndHour == getHourInTimezone(slotEnd, timezone)
    IN  /\ ~ userSpecifiedEndHour
        /\ \/ slotEndHour > endHour
           \/ (slotEndHour = endHour /\ getMinutes(slotEnd) > 0)

----------------------------------------------------------------------------
(* findAvailableSlotsAdvanced *)

\* Variant of OnError that swallows the failure into an empty list.
OnErrorReturnsEmpty ==
    /\ pc' = "done"
    /\ outcome' = "returned"
    /\ result' = <<>>

\* catch (error) { throw new Error('Failed to find available slots') }
OnError ==
    /\ pc' = "error"
    /\ outcome' = "thrown"
    /\ UNCHANGED result

\* Variant of QueryFail that repeats a rejected query once.
QueryFailRetry ==
    /\ pc = "call"
    /\ queries' = queries + 1
    /\ IF queries = 0
       THEN UNCHANGED <<pc, queryState, outcome, result>>
       ELSE queryState' = "rejected" /\ OnError
    /\ UNCHANGED <<env, inp, busyPeriods, currentTime, freeSlots, evaluated, tick>>
    /\ UNCHANGED <<facadeVars, firstRun>>

\* await calendar.freebusy.query(...) rejects.
QueryFail ==
    /\ pc = "call"
    /\ queryState' = "rejected"
    /\ OnError
    /\ queries' = queries + 1
    /\ UNCHANGED <<env, inp, busyPeriods, currentTime, freeSlots, evaluated, tick>>
    /\ UNCHANGED <<facadeVars, firstRun>>

\* await calendar.freebusy.query(...) resolves with the busy periods.
QueryOk ==
    /\ pc = "call"
    /\ queryState' = "resolved"
    /\ busyPeriods' = inp.busy
    /\ pc' = "scan"
    /\ queries' = queries + 1
    /\ UNCHANGED <<env, inp, currentTime, freeSlots, outcome, result, evaluated, tick>>
    /\ UNCHANGED <<facadeVars, firstRun>>

\* calculateFreeSlotsAdvanced reaches setHourInTimezone with a zone name
\* Intl rejects: the RangeError lands in the caller's catch.
ScanThrows ==
    /\ pc = "scan"
    /\ timezone \notin Zones
    /\ OnError
    /\ UNCHANGED <<env, inp, queryState, busyPeriods, currentTime, freeSlots,
                   evaluated, tick>>
    /\ UNCHANGED <<facadeVars, firstRun, queries>>

\* calculateFreeSlotsAdvanced up to its loop.
ScanStart ==
    /\ pc = "scan"
    /\ timezone \in Zones
    /\ busyPeriods' = SortByStart(busyPeriods)
    /\ currentTime' = InitialCursor
    /\ freeSlots' = <<>>
    /\ pc' = "loop"
    /\ UNCHANGED <<env, inp, queryState, outcome, result, evaluated, tick>>
    /\ UNCHANGED <<facadeVars, firstRun, queries>>

LoopFrame ==
    UNCHANGED <<env, inp, pc, queryState, busyPeriods, outcome, result,
                calendar, last, calls, firstRun, queries>>

dayOfWeek == getDayInTimezone(currentTime, timezone)
hour == getHourInTimezone(currentTime, timezone)

IsExcludedDay == dayOfWeek \in inp.excludeDays
IsSkippedWeekend == ~ isSingleDaySearch /\ (dayOfWeek = 0 \/ dayOfWeek = 6)

\* Variant of OutsideHours that joins the two tests with "and".
OutsideHoursBoth == hour < startHour /\ hour > endHour

\* if (hour < startHour || hour > endHour)
OutsideHours == hour < startHour \/ hour > endHour

SkipExcludedDay ==
    /\ pc = "loop" /\ LoopCondition
    /\ IsExcludedDay
    /\ currentTime' = advanceToNextDay(currentTime)
    /\ tick' = 1 - tick
    /\ UNCHANGED <<freeSlots, evaluated>>
    /\ LoopFrame

SkipWeekend ==
    /\ pc = "loop" /\ LoopCondition
    /\ ~ IsExcludedDay
    /\ IsSkippedWeekend
    /\ currentTime' = advanceToNextDay(currentTime)
    /\ tick' = 1 - tick
    /\ UNCHANGED <<freeSlots, evaluated>>
    /\ LoopFrame

SkipPastEndHour ==
    /\ pc = "loop" /\ LoopCondition
    /\ ~ IsExcludedDay /\ ~ IsSkippedWeekend
    /\ OutsideHours /\ hour > endHour
    /\ currentTime' = advanceToNextDay(currentTime)
    /\ tick' = 1 - tick
    /\ UNCHANGED <<freeSlots, evaluated>>
    /\ LoopFrame

SnapToStartHour ==
    /\ pc = "loop" /\ LoopCondition
    /\ ~ IsExcludedDay /\ ~ IsSkippedWeekend
    /\ OutsideHours /\ ~ (hour > endHour)
    /\ currentTime' = setHourInTimezone(currentTime, startHour, timezone)
    /\ tick' = 1 - tick
    /\ UNCHANGED <<freeSlots, evaluated>>
    /\ LoopFrame

SkipSlotEndPastEndHour ==
    /\ pc = "loop" /\ LoopCondition
    /\ ~ IsExcludedDay /\ ~ IsSkippedWeekend
    /\ ~ OutsideHours
    /\ SlotEndExceeds(currentTime)
    /\ currentTime' = advanceToNextDay(currentTime)
    /\ tick' = 1 - tick
    /\ UNCHANGED <<freeSlots, evaluated>>
    /\ LoopFrame

EvaluateSlot ==
    /\ pc = "loop" /\ LoopCondition
    /\ ~ IsExcludedDay /\ ~ IsSkippedWeekend
    /\ ~ OutsideHours
    /\ ~ SlotEndExceeds(currentTime)
    /\ freeSlots' =
           IF isSlotFree(currentTime)
           THEN Append(freeSlots, [start |-> currentTime,
                                   end |-> currentTime + slotDuration,
                                   available |-> TRUE])
           ELSE freeSlots
    /\ evaluated' = Append(evaluated, [start |-> currentTime,
                                       free |-> isSlotFree(currentTime)])
    /\ currentTime' = currentTime + 30 * 60 * 1000
    /\ tick' = 1 - tick
    /\ LoopFrame

\* The loop's exit and `return freeSlots.slice(0, 5)`; the caller returns it.
ScanReturn ==
    /\ pc = "loop" /\ ~ LoopCondition
    /\ result' = SliceResult(freeSlots)
    /\ outcome' = "returned"
    /\ pc' = "done"
    /\ UNCHANGED <<env, inp, queryState, busyPeriods, currentTime, freeSlots, evaluated, tick>>
    /\ UNCHANGED <<facadeVars, firstRun, queries>>

----------------------------------------------------------------------------
(* Inputs *)

Envs == [hostZone : Zones, hourCycle : {"h23", "h24"}]

\* Days of the model's calendar: 2 = Tuesday 2024-02-06, 6 = Saturday.
Tue == 2
Sat == 6

FarPast == At(0, 0, 0, 0, 0)

MaxDurationSlots == 2
MaxBufferSteps == 1
MaxBusy == 2
MaxWindowDays == 2

LongDuration == 8 * 60
Durations == {30 * k : k \in 1..MaxDurationSlots} \cup {LongDuration}
Buffers == {15 * k : k \in 0..MaxBufferSteps}

Interval(s, e) == [start |-> s, end |-> e]

\* Busy periods of Tuesday: the 10:00-11:00 meeting, one that begins a
\* millisecond before 09:30, one that ends a millisecond after 09:00, and a
\* short one inside 11:30-12:00.
BusyPool ==
    { Interval(At(Tue, 10, 0, 0, 0), At(Tue, 11, 0, 0, 0)),
      Interval(At(Tue, 9, 29, 59, 999), At(Tue, 9, 45, 0, 0)),
      Interval(At(Tue, 8, 45, 0, 0), At(Tue, 9, 0, 0, 1)),
      Interval(At(Tue, 11, 35, 0, 0), At(Tue, 11, 40, 0, 0)) }

\* Provider answers: lists of distinct pool periods, in any order.
BusyLists ==
    { b \in UNION { [1..n -> BusyPool] : n \in 0..MaxBusy } :
        \A i, j \in 1..Len(b) : i # j => b[i] # b[j] }

BaseRequest ==
    [ duration |-> 30,
      startDate |-> At(Tue, 0, 0, 0, 0),
      endDate |-> At(Tue + 1, 0, 0, 0, 0),
      timePreference |-> {},
      notBefore |-> {},
      notAfter |-> {},
      excludeDays |-> {},
      bufferBefore |-> 0,
      bufferAfter |-> 0,
      timezone |-> {"UTC"},
      busy |-> <<>>,
      now |-> FarPast ]

TimezoneArgs == {{}, {"UTC"}, {"Asia/Kolkata"}}

\* Durations, buffers and busy lists on the Tuesday window.
GridRequests ==
    { [BaseRequest EXCEPT !.duration = d, !.bufferBefore = bb,
                          !.bufferAfter = ba, !.busy = b, !.timezone = tz] :
        d \in Durations, bb \in Buffers, ba \in Buffers, b \in BusyLists,
        tz \in {{"UTC"}, {"Asia/Kolkata"}} }

HourArgs ==
    { [pref |-> {}, nb |-> {}, na |-> {}],
      [pref |-> {"evening"}, nb |-> {}, na |-> {}],
      [pref |-> {"afternoon"}, nb |-> {}, na |-> {}],
      [pref |-> {"morning"}, nb |-> {0}, na |-> {}],
      [pref |-> {"evening"}, nb |-> {19}, na |-> {}],
      [pref |-> {}, nb |-> {9}, na |-> {10}],
      [pref |-> {}, nb |-> {20}, na |-> {10}],
      [pref |-> {"any"}, nb |-> {}, na |-> {23}],
      [pref |-> {"morning"}, nb |-> {}, na |-> {}],
      [pref |-> {}, nb |-> {0}, na |-> {0}] }

\* Window starts: UTC midnight, local midnight of Asia/Kolkata, mid-morning.
WindowStarts(d) ==
    { At(d, 0, 0, 0, 0), At(d - 1, 18, 30, 0, 0), At(d, 10, 15, 0, 0) }

\* Hour bounds and window shapes.
HourRequests ==
    { [BaseRequest EXCEPT !.timePreference = h.pref, !.notBefore = h.nb,
                          !.notAfter = h.na, !.duration = d,
                          !.startDate = s, !.endDate = s + n * DayMs,
                          !.timezone = tz] :
        h \in HourArgs, d \in Durations, s \in WindowStarts(Tue),
        n \in 1..MaxWindowDays, tz \in TimezoneArgs }

ExcludeArgs == { {}, {Tue}, {Sat}, 0..6 }

\* Weekday rules: windows that start on Tuesday or Saturday; a window of
\* 12 hours is a single-day search.
DayWindowEnds(s) ==
    { s + 12 * HourMs } \cup { s + n * DayMs : n \in 1..(MaxWindowDays + 1) }

DayRequests ==
    UNION { { [BaseRequest EXCEPT !.excludeDays = x, !.startDate = s,
                                  !.endDate = e, !.timezone = tz] :
                x \in ExcludeArgs, e \in DayWindowEnds(s),
                tz \in {{"UTC"}, {"Asia/Kolkata"}} } :
            s \in WindowStarts(Tue) \cup WindowStarts(Sat) }

\* Clock readings of Tuesday for today searches.
Nows ==
    { At(Tue, 8, 0, 0, 0), At(Tue, 11, 10, 0, 0), At(Tue, 11, 0, 0, 0),
      At(Tue, 11, 0, 0, 500), At(Tue, 11, 30, 20, 500), At(Tue, 11, 45, 10, 1),
      At(Tue, 11, 29, 59, 999), At(Tue, 17, 40, 0, 0) }

TodayRequests ==
    { [BaseRequest EXCEPT !.now = n, !.startDate = s, !.busy = b,
                          !.timezone = tz, !.duration = d] :
        n \in Nows, s \in { At(Tue, 0, 0, 0, 0), At(Tue, 9, 0, 0, 0) },
        b \in { <<>>, <<Interval(At(Tue, 10, 0, 0, 0), At(Tue, 11, 0, 0, 0))>> },
        tz \in {{"UTC"}, {"Asia/Kolkata"}}, d \in {30, 60} }

\* Searches that name a zone Intl does not know.
UnknownZoneRequests ==
    { [BaseRequest EXCEPT !.timezone = {UnknownZone}, !.busy = b] :
        b \in BusyLists }

Requests ==
    GridRequests \cup HourRequests \cup DayRequests \cup TodayRequests
        \cup UnknownZoneRequests

----------------------------------------------------------------------------
(* The meeting facade: createMeeting, updateMeeting, deleteMeeting and     *)
(* getLastMeetingOfDay against the provider's primary calendar.            *)

\* Longest sequence of facade calls explored.
MaxCalls == 2

\* Date.prototype.toISOString: the UTC calendar day and the time of day.
toISOString(t) == [date |-> t \div DayMs, time |-> t % DayMs]

\* The provider reading an RFC 3339 dateTime back into an instant.
FromDateTime(iso) == iso.date * DayMs + iso.time

\* JavaScript truthiness of an optional string and of an optional number.
TruthyString(opt) == opt # {} /\ Some(opt) # ""
TruthyNumber(opt) == opt # {} /\ Some(opt) # 0

\* What the provider can answer besides serving the request.
ProviderFaults == {"none", "unauthorized", "rateLimited", "serverError", "unreachable"}

\* Events on the calendar before the service is constructed.
Standup ==
    [ id |-> 1, summary |-> "Standup", description |-> {"Agenda"},
      start |-> At(Tue, 10, 0, 0, 0), end |-> At(Tue, 10, 30, 0, 0) ]
Planning ==
    [ id |-> 2, summary |-> "Planning", description |-> {},
      start |-> At(Tue, 18, 45, 0, 0), end |-> At(Tue, 19, 30, 0, 0) ]
InitialCalendars == { {}, {Standup}, {Standup, Planning} }

\* The id the provider gives the next inserted event.
FreshId == Cardinality(InitialCalendars) + calls

\* Ids a caller names: an event that may pre-exist and one that may have
\* been created.
EventIds == {Standup.id, Cardinality(InitialCalendars)}

\* Faults tried on the calls that name an event or list a day.
SomeFaults == {"none", "unauthorized", "unreachable"}

EventsWithId(cal, eventId) == { e \in cal : e.id = eventId }

\* The provider's answer to a request that names an event.
ResponseFor(cal, eventId, fault) ==
    IF fault # "none" THEN fault
    ELSE IF EventsWithId(cal, eventId) = {} THEN "notFound"
    ELSE "ok"

\* Variant of EndTimeOf that reads the duration as seconds.
EndTimeOfSeconds(startTime, duration) == startTime + duration * SecondMs

\* new Date(startTime.getTime() + duration * 60000)
EndTimeOf(startTime, duration) == startTime + duration * 60000

\* meeting.timeZone || 'Asia/Kolkata'
TimeZoneOrDefault(opt) == IF TruthyString(opt) THEN Some(opt) ELSE "Asia/Kolkata"

\* The requestBody of events.insert.
InsertBody(meeting) ==
    [ summary     |-> meeting.title,
      description |-> meeting.description,
      start       |-> [ dateTime |-> toISOString(meeting.startTime),
                        timeZone |-> TimeZoneOrDefault(meeting.timeZone) ],
      end         |-> [ dateTime |-> toISOString(EndTimeOf(meeting.startTime,
                                                           meeting.duration)),
                        timeZone |-> TimeZoneOrDefault(meeting.timeZone) ] ]

\* The event the provider stores for an insert.
InsertedEvent(eventId, body) ==
    [ id          |-> eventId,
      summary     |-> body.summary,
      description |-> body.description,
      start       |-> FromDateTime(body.start.dateTime),
      end         |-> FromDateTime(body.end.dateTime) ]

\* Variant of PatchKeys that sends every key whatever was supplied.
PatchKeysAll(updates) == {"summary", "description", "start", "end"}

\* The keys updateMeeting puts in updateData.
PatchKeys(updates) ==
    (IF TruthyString(updates.title) THEN {"summary"} ELSE {})
        \cup (IF TruthyString(updates.description) THEN {"description"} ELSE {})
        \cup (IF updates.startTime # {} /\ TruthyNumber(updates.duration)
              THEN {"start", "end"} ELSE {})

\* What updateMeeting would write under each key.
PatchValue(updates, key) ==
    CASE key = "summary"     -> IF updates.title = {} THEN "" ELSE Some(updates.title)
      [] key = "description" -> updates.description
      [] key = "start"       ->
             [ dateTime |-> IF updates.startTime = {} THEN toISOString(0)
                            ELSE toISOString(Some(updates.startTime)),
               timeZone |-> TimeZoneOrDefault(updates.timeZone) ]
      [] key = "end"         ->
             [ dateTime |-> IF updates.startTime = {} \/ updates.duration = {}
                            THEN toISOString(0)
                            ELSE toISOString(EndTimeOf(Some(updates.startTime),
                                                       Some(updates.duration))),
               timeZone |-> TimeZoneOrDefault(updates.timeZone) ]

\* The requestBody of events.patch.
updateData(updates) == [ key \in PatchKeys(updates) |-> PatchValue(updates, key) ]

\* Patch semantics: a key of the body replaces the field, the rest stays.
PatchedEvent(e, body) ==
    [ id          |-> e.id,
      summary     |-> IF "summary" \in DOMAIN body THEN body["summary"] ELSE e.summary,
      description |-> IF "description" \in DOMAIN body THEN body["description"]
                      ELSE e.description,
      start       |-> IF "start" \in DOMAIN body THEN FromDateTime(body["start"].dateTime)
                      ELSE e.start,
      end         |-> IF "end" \in DOMAIN body THEN FromDateTime(body["end"].dateTime)
                      ELSE e.end ]

\* catch of createMeeting.
createMeetingCatch(response) == "Failed to create meeting"

\* catch of updateMeeting.
updateMeetingCatch(response) == "Failed to update meeting"

\* catch of deleteMeeting.
deleteMeetingCatch(response) == "Failed to delete meeting"

\* The message getEvents throws for a 401.
AuthExpiredMessage ==
    "Calendar authentication expired. Please reconnect your Google account."

\* events.list with timeMin and timeMax: events that end after timeMin and
\* start before timeMax.
ListedEvents(cal, timeMin, timeMax) ==
    { e \in cal : e.end > FromDateTime(toISOString(timeMin))
                  /\ e.start < FromDateTime(toISOString(timeMax)) }

\* events[0] after the stable sort by end, descending, of a list the provider
\* ordered by start: latest end, then earliest start, then any.
LastCandidates(events) ==
    { e \in events :
        /\ \A o \in events : o.end <= e.end
        /\ \A o \in events : o.end = e.end => e.start <= o.start }

NoArgs ==
    [ eventId |-> {}, title |-> {}, description |-> {}, startTime |-> {},
      duration |-> {}, timeZone |-> {}, date |-> {}, query |-> {},
      startDate |-> {}, endDate |-> {}, now |-> {} ]

\* No call made yet.
NoCall ==
    [ op |-> "none", args |-> NoArgs, fault |-> "none", response |-> "none",
      before |-> {}, request |-> {}, providerCalls |-> 0,
      outcome |-> "pending", error |-> "", value |-> {} ]

\* A completed call.
Call(op, args, fault, response, request, providerCalls, threw, error, value) ==
    [ op |-> op, args |-> args, fault |-> fault, response |-> response,
      before |-> calendar, request |-> request, providerCalls |-> providerCalls,
      outcome |-> IF threw THEN "thrown" ELSE "returned",
      error |-> error, value |-> value ]

\* The search variables, which the facade leaves alone.
scanVars == <<env, inp, pc, queryState, busyPeriods, currentTime, freeSlots,
              outcome, result, evaluated, tick, firstRun, queries>>

Titles == {"Retro"}
NewTitles == {"Review"}
Descriptions == {"Agenda"}
NewDescriptions == {"", "Notes"}
MeetingStarts == {At(Tue, 10, 0, 0, 0), At(Tue, 18, 45, 0, 0)}
NewStarts == {At(Tue + 1, 9, 0, 0, 0)}
MeetingDurations == {30, 45}
NewDurations == {60}
Optional(S) == {{}} \cup { {v} : v \in S }

MeetingInputs ==
    { [NoArgs EXCEPT !.title = {t}, !.description = d, !.startTime = {s},
                     !.duration = {m}, !.timeZone = z] :
        t \in Titles, d \in Optional(Descriptions), s \in MeetingStarts,
        m \in MeetingDurations, z \in Optional({"UTC"}) }

UpdateInputs ==
    { [NoArgs EXCEPT !.eventId = {i}, !.title = t, !.description = d,
                     !.startTime = s, !.duration = m] :
        i \in EventIds, t \in Optional(NewTitles),
        d \in Optional(NewDescriptions), s \in Optional(NewStarts),
        m \in Optional(NewDurations) }

DeleteInputs == { [NoArgs EXCEPT !.eventId = {i}] : i \in EventIds }

LastMeetingInputs ==
    { [NoArgs EXCEPT !.date = {d}, !.timeZone = z] :
        d \in {At(Tue, 12, 0, 0, 0), At(Tue, 19, 0, 0, 0)},
        z \in Optional({"UTC", UnknownZone}) }

createMeeting ==
    \E meeting \in MeetingInputs, fault \in ProviderFaults :
        LET flat == [ title |-> Some(meeting.title),
                      description |-> meeting.description,
                      startTime |-> Some(meeting.startTime),
                      duration |-> Some(meeting.duration),
                      timeZone |-> meeting.timeZone ]
            body == InsertBody(flat)
            id == FreshId
        IN
        /\ calls < MaxCalls
        /\ calls' = calls + 1
        /\ IF fault = "none"
           THEN /\ calendar' = calendar \cup {InsertedEvent(id, body)}
                /\ last' = Call("createMeeting", meeting, fault, "ok", {body}, 1,
                                FALSE, "", {id})
           ELSE /\ calendar' = calendar
                /\ last' = Call("createMeeting", meeting, fault, fault, {body}, 1,
                                TRUE, createMeetingCatch(fault), {})
        /\ UNCHANGED scanVars

updateMeeting ==
    \E updates \in UpdateInputs, fault \in SomeFaults :
        LET eventId == Some(updates.eventId)
            body == updateData(updates)
            response == ResponseFor(calendar, eventId, fault)
        IN
        /\ calls < MaxCalls
        /\ calls' = calls + 1
        /\ IF response = "ok"
           THEN /\ calendar' =
                      { IF e.id = eventId THEN PatchedEvent(e, body) ELSE e :
                          e \in calendar }
                /\ last' = Call("updateMeeting", updates, fault, response, {body},
                                1, FALSE, "", {})
           ELSE /\ calendar' = calendar
                /\ last' = Call("updateMeeting", updates, fault, response, {body},
                                1, TRUE, updateMeetingCatch(response), {})
        /\ UNCHANGED scanVars

deleteMeeting ==
    \E args \in DeleteInputs, fault \in SomeFaults :
        LET eventId == Some(args.eventId)
            response == ResponseFor(calendar, eventId, fault)
        IN
        /\ calls < MaxCalls
        /\ calls' = calls + 1
        /\ IF response = "ok"
           THEN /\ calendar' = calendar \ EventsWithId(calendar, eventId)
                /\ last' = Call("deleteMeeting", args, fault, response, {}, 1,
                                FALSE, "", {})
           ELSE /\ calendar' = calendar
                /\ last' = Call("deleteMeeting", args, fault, response, {}, 1,
                                TRUE, deleteMeetingCatch(response), {})
        /\ UNCHANGED scanVars

getLastMeetingOfDay ==
    \E args \in LastMeetingInputs, fault \in SomeFaults :
        LET date == Some(args.date)
            zone == IF args.timeZone = {} THEN "Asia/Kolkata" ELSE Some(args.timeZone)
        IN
        /\ calls < MaxCalls
        /\ calls' = calls + 1
        /\ calendar' = calendar
        /\ IF zone \notin Zones
           THEN \* setHourInTimezone throws; the catch returns null
                last' = Call("getLastMeetingOfDay", args, fault, "none", {}, 0,
                             FALSE, "", {})
           ELSE LET startOfDay == setHourInTimezone(date, 0, zone)
                    endOfDay == setHourInTimezone(date, 23, zone)
                    endOfDayFull == endOfDay + 59 * 60 * 1000 + 59 * 1000 + 999
                    events == ListedEvents(calendar, startOfDay, endOfDayFull)
                    request == {[timeMin |-> toISOString(startOfDay),
                                 timeMax |-> toISOString(endOfDayFull)]}
                IN  IF fault # "none" \/ events = {}
                    THEN \* getEvents throws and the catch returns null, or
                         \* the day is empty
                         last' = Call("getLastMeetingOfDay", args, fault,
                                      IF fault = "none" THEN "ok" ELSE fault,
                                      request, 1, FALSE, "", {})
                    ELSE \E e \in LastCandidates(events) :
                             last' = Call("getLastMeetingOfDay", args, fault, "ok",
                                          request, 1, FALSE, "", {e})
        /\ UNCHANGED scanVars

\* Order of two RFC 3339 instants.
IsoBefore(a, b) == a.date < b.date \/ (a.date = b.date /\ a.time < b.time)

\* new Date(Date.now() + 30 * 24 * 60 * 60 * 1000).toISOString()
ThirtyDaysAheadIso(now) == [date |-> now \div DayMs + 30, time |-> now % DayMs]

\* The provider's free-text match of q against an event.
Matches(e, q) == e.summary = q \/ q \in e.description

\* Variant of SearchedEvents that ignores the query text.
SearchedEventsAnyText(cal, q, isoMin, isoMax) ==
    { e \in cal : /\ IsoBefore(isoMin, toISOString(e.end))
                  /\ IsoBefore(toISOString(e.start), isoMax) }

\* events.list with timeMin, timeMax and q.
SearchedEvents(cal, q, isoMin, isoMax) ==
    { e \in cal : /\ IsoBefore(isoMin, toISOString(e.end))
                  /\ IsoBefore(toISOString(e.start), isoMax)
                  /\ Matches(e, q) }

\* The CalendarEvent searchEvents builds from a provider item.
ToCalendarEvent(e) ==
    [ id |-> e.id, title |-> e.summary, description |-> e.description,
      start |-> e.start, end |-> e.end ]

\* orderBy: 'startTime': every listing of the events by increasing start.
OrderedByStart(events) ==
    { items \in [1..Cardinality(events) -> events] :
        /\ \A i, j \in DOMAIN items : i < j =>
               items[i] # items[j] /\ items[i].start <= items[j].start }

Queries == {"Standup", "Agenda", "Offsite"}

SearchInputs ==
    { [NoArgs EXCEPT !.query = {q}, !.startDate = s, !.endDate = e, !.now = {n}] :
        q \in Queries, s \in Optional({At(Tue, 0, 0, 0, 0)}),
        e \in Optional({At(Tue, 12, 0, 0, 0)}), n \in {At(Tue, 10, 15, 0, 0)} }

searchEvents ==
    \E args \in SearchInputs, fault \in SomeFaults :
        LET now == Some(args.now)
            timeMin == IF args.startDate # {} THEN toISOString(Some(args.startDate))
                       ELSE toISOString(now)
            timeMax == IF args.endDate # {} THEN toISOString(Some(args.endDate))
                       ELSE ThirtyDaysAheadIso(now)
            request == {[timeMin |-> timeMin, timeMax |-> timeMax,
                         q |-> Some(args.query)]}
            found == SearchedEvents(calendar, Some(args.query), timeMin, timeMax)
        IN
        /\ calls < MaxCalls
        /\ calls' = calls + 1
        /\ calendar' = calendar
        /\ IF fault # "none"
           THEN \* the catch returns []
                last' = Call("searchEvents", args, fault, fault, request, 1,
                             FALSE, "", {<<>>})
           ELSE \E items \in OrderedByStart(found) :
                    last' = Call("searchEvents", args, fault, "ok", request, 1,
                                 FALSE, "",
                                 {[i \in DOMAIN items |-> ToCalendarEvent(items[i])]})
        /\ UNCHANGED scanVars

\* No search is running while the facade is exercised.
InitCalendar ==
    /\ env \in Envs
    /\ inp = BaseRequest
    /\ pc = "idle"
    /\ queryState = "pending"
    /\ busyPeriods = <<>>
    /\ currentTime = 0
    /\ freeSlots = <<>>
    /\ outcome = "pending"
    /\ result = <<>>
    /\ evaluated = <<>>
    /\ tick = 0
    /\ calendar \in InitialCalendars
    /\ last = NoCall
    /\ calls = 0
    /\ firstRun = {}
    /\ queries = 0

NextCalendar ==
    \/ createMeeting
    \/ updateMeeting
    \/ deleteMeeting
    \/ getLastMeetingOfDay
    \/ searchEvents

SpecCalendar == InitCalendar /\ [][NextCalendar]_vars

----------------------------------------------------------------------------
(* Specification *)

Init ==
    /\ env \in Envs
    /\ inp \in Requests
    /\ pc = "call"
    /\ queryState = "pending"
    /\ busyPeriods = <<>>
    /\ currentTime = 0
    /\ freeSlots = <<>>
    /\ outcome = "pending"
    /\ result = <<>>
    /\ evaluated = <<>>
    /\ tick = 0
    /\ calendar = {}
    /\ last = NoCall
    /\ calls = 0
    /\ firstRun = {}
    /\ queries = 0

Next ==
    \/ QueryFail
    \/ QueryOk
    \/ ScanThrows
    \/ ScanStart
    \/ SkipExcludedDay
    \/ SkipWeekend
    \/ SkipPastEndHour
    \/ SnapToStartHour
    \/ SkipSlotEndPastEndHour
    \/ EvaluateSlot
    \/ ScanReturn

Spec == Init /\ [][Next]_vars

\* The scan is synchronous code: once called it runs until it returns.
FairSpec == Spec /\ WF_vars(Next)

----------------------------------------------------------------------------
(* The same search called twice, and calls in flight together.             *)

\* A second findAvailableSlotsAdvanced call with the same arguments, busy
\* data and clock, on a process whose runtime is e; what the first call
\* returned is kept.
RunAgain(e) ==
    /\ pc = "done" /\ firstRun = {}
    /\ firstRun' = {result}
    /\ env' = e
    /\ pc' = "call"
    /\ queryState' = "pending"
    /\ busyPeriods' = <<>>
    /\ currentTime' = 0
    /\ freeSlots' = <<>>
    /\ outcome' = "pending"
    /\ result' = <<>>
    /\ evaluated' = <<>>
    /\ tick' = 0
    /\ queries' = 0
    /\ UNCHANGED <<inp, facadeVars>>

\* The second call runs on a host in another zone.
RunOnOtherHost ==
    \E e \in Envs :
        /\ e.hourCycle = env.hourCycle /\ e.hostZone # env.hostZone
        /\ RunAgain(e)

NextRerun == Next \/ RunOnOtherHost

SpecRerun == Init /\ [][NextRerun]_vars

\* The second call runs on the same process.
RunOnSameHost == RunAgain(env)

\* The search is suspended only at its await, before the query settles; the
\* scan is synchronous, so another call runs before the query settles or
\* after the search has ended.
AtAwait == pc \in {"call", "done", "error"}

\* Another caller's mutation on the same service.
OtherCall == AtAwait /\ (createMeeting \/ updateMeeting \/ deleteMeeting)

\* Searches that between them take every branch of the scan.
ConcurrentRequests ==
    { [BaseRequest EXCEPT !.busy = <<Interval(At(Tue, 10, 0, 0, 0),
                                              At(Tue, 11, 0, 0, 0))>>],
      [BaseRequest EXCEPT !.timezone = {UnknownZone}],
      [BaseRequest EXCEPT !.duration = LongDuration],
      [BaseRequest EXCEPT !.notBefore = {9}, !.notAfter = {10}],
      [BaseRequest EXCEPT !.excludeDays = {Tue}, !.endDate = At(Tue + 2, 0, 0, 0, 0)],
      [BaseRequest EXCEPT !.startDate = At(Sat, 0, 0, 0, 0),
                          !.endDate = At(Sat + 3, 0, 0, 0, 0)] }

\* One more facade call fits before the call bound is reached.
InitConcurrent ==
    /\ env \in Envs
    /\ inp \in ConcurrentRequests
    /\ pc = "call"
    /\ queryState = "pending"
    /\ busyPeriods = <<>>
    /\ currentTime = 0
    /\ freeSlots = <<>>
    /\ outcome = "pending"
    /\ result = <<>>
    /\ evaluated = <<>>
    /\ tick = 0
    /\ calendar = {Standup}
    /\ last = NoCall
    /\ calls = MaxCalls - 1
    /\ firstRun = {}
    /\ queries = 0

NextConcurrent == Next \/ OtherCall \/ RunOnSameHost

SpecConcurrent == InitConcurrent /\ [][NextConcurrent]_vars

----------------------------------------------------------------------------
(* The overlap test on its own: Init draws a candidate and a busy period    *)
(* and the one action applies the test.                                    *)

\* Instants run over 0..MaxInstant.
MaxInstant == 4

\* Candidates are never empty; a busy period may be.
OverlapInputs ==
    { i \in [s : 0..MaxInstant, e : 0..MaxInstant,
             busy : [start : 0..MaxInstant, end : 0..MaxInstant]] :
        i.s < i.e /\ i.busy.start <= i.busy.end }

OverlapInit ==
    /\ env \in {e \in Envs : e.hostZone = "UTC" /\ e.hourCycle = "h23"}
    /\ inp \in OverlapInputs
    /\ pc = "overlap"
    /\ queryState = "pending"
    /\ busyPeriods = <<>>
    /\ currentTime = 0
    /\ freeSlots = <<>>
    /\ outcome = "pending"
    /\ result = <<>>
    /\ evaluated = <<>>
    /\ tick = 0
    /\ calendar = {}
    /\ last = NoCall
    /\ calls = 0
    /\ firstRun = {}
    /\ queries = 0

ApplyOverlapTest ==
    /\ pc = "overlap"
    /\ result' = <<BusyConflicts(inp.busy, inp.s, inp.e)>>
    /\ pc' = "tested"
    /\ UNCHANGED <<env, inp, queryState, busyPeriods, currentTime, freeSlots,
                   outcome, evaluated, tick>>
    /\ UNCHANGED <<facadeVars, firstRun, queries>>

OverlapNext == ApplyOverlapTest

SpecOverlap == OverlapInit /\ [][OverlapNext]_vars

----------------------------------------------------------------------------
(* setHourInTimezone on its own: Init draws (date, hour, timezone) and the  *)
(* one action applies the function.                                        *)

\* Instants of Tuesday and Wednesday, on and off the hour and the second.
SetHourDates ==
    { At(d, h, m, 0, 0) : d \in {Tue, Tue + 1}, h \in {0, 4, 9, 18, 23},
                          m \in {0, 15, 45} }
        \cup { At(Tue, 4, 45, 30, 250), At(Tue, 18, 29, 59, 999) }

SetHourInit ==
    /\ env \in Envs
    /\ inp \in [date : SetHourDates, hour : 0..23, timezone : Zones]
    /\ pc = "setHour"
    /\ queryState = "pending"
    /\ busyPeriods = <<>>
    /\ currentTime = 0
    /\ freeSlots = <<>>
    /\ outcome = "pending"
    /\ result = <<>>
    /\ evaluated = <<>>
    /\ tick = 0
    /\ calendar = {}
    /\ last = NoCall
    /\ calls = 0
    /\ firstRun = {}
    /\ queries = 0

ApplySetHour ==
    /\ pc = "setHour"
    /\ currentTime' = setHourInTimezone(inp.date, inp.hour, inp.timezone)
    /\ pc' = "applied"
    /\ UNCHANGED <<env, inp, queryState, busyPeriods, freeSlots, outcome,
                   result, evaluated, tick>>
    /\ UNCHANGED <<facadeVars, firstRun, queries>>

SetHourNext == ApplySetHour

SpecSetHour == SetHourInit /\ [][SetHourNext]_vars

----------------------------------------------------------------------------
(* Wall-clock notions the properties are stated in *)

\* The wall-clock hour 0..23 of an instant in a zone.
WallHour(t, zone) == (LocalMs(t, zone) \div HourMs) % 24

\* 0 = Sunday .. 6 = Saturday.
WallWeekday(t, zone) == (LocalMs(t, zone) \div DayMs) % 7

\* The instant of 00:00:00.000 wall-clock time on t's local date.
LocalMidnight(t, zone) == t - (LocalMs(t, zone) % DayMs)

\* The instant whose wall-clock time is h:00:00.000 on t's local date.
WallClockAt(t, h, zone) == LocalMidnight(t, zone) + h * HourMs

\* The buffer-expanded interval of a slot that starts at t.
BufferedStartOf(t) == t - inp.bufferBefore * MinuteMs
BufferedEndOf(t) == t + (inp.duration + inp.bufferAfter) * MinuteMs

\* Half-open intersection of [s, e) with the busy period b.
Intersects(s, e, b) == s < b.end /\ e > b.start

\* Length of the intersection of [s, e) with b, when they intersect.
OverlapMs(s, e, b) ==
    (IF e < b.end THEN e ELSE b.end) - (IF s > b.start THEN s ELSE b.start)

Returned == outcome = "returned"
ResultStarts == { result[i].start : i \in 1..Len(result) }

----------------------------------------------------------------------------
(* Properties *)

\* C1: a returned list has at most 5 slots, in non-decreasing order of start.
C1_ResultCapAndOrder ==
    Returned =>
        /\ Len(result) <= 5
        /\ \A i, j \in 1..Len(result) :
               i < j => result[i].start <= result[j].start

\* C1 witness: a scan that found 10 free slots and returned 5 of them.
C1_Witness == Returned /\ Len(freeSlots) = 10 /\ Len(result) = 5

\* C2: the buffer-expanded interval of every returned slot intersects no
\* busy period supplied to the scan.
C2_NoBusyIntersection ==
    Returned =>
        \A t \in ResultStarts : \A j \in 1..Len(inp.busy) :
            ~ Intersects(BufferedStartOf(t), BufferedEndOf(t), inp.busy[j])

\* C2 witness: buffers are in force, one candidate was rejected because of a
\* busy period, and slots were returned.
C2_Witness ==
    /\ Returned /\ result # <<>>
    /\ inp.bufferBefore > 0 /\ inp.bufferAfter > 0
    /\ \E k \in 1..Len(evaluated) : ~ evaluated[k].free

\* Touching: the buffered candidate ends where b starts, or starts where b ends.
Touches(t, b) == BufferedEndOf(t) = b.start \/ BufferedStartOf(t) = b.end

\* C3: a candidate that touches busy periods but intersects none is judged
\* free and emitted; one that overlaps a busy period, even by a single
\* millisecond, is judged not free.
C3_HalfOpenBoundary ==
    \A k \in 1..Len(evaluated) :
        LET t == evaluated[k].start
            s == BufferedStartOf(t)
            e == BufferedEndOf(t)
            B == { inp.busy[j] : j \in 1..Len(inp.busy) }
        IN  /\ ((\E b \in B : Touches(t, b)) /\ (\A b \in B : ~ Intersects(s, e, b)))
                   => /\ evaluated[k].free
                      /\ \E i \in 1..Len(freeSlots) : freeSlots[i].start = t
            /\ (\E b \in B : Intersects(s, e, b) /\ OverlapMs(s, e, b) >= 1)
                   => ~ evaluated[k].free

\* C3 witness: one scan judged free a candidate ending exactly at a busy
\* start, judged free a candidate starting exactly at a busy end, and
\* rejected a candidate overlapping a busy period by one millisecond.
C3_Witness ==
    LET B == { inp.busy[j] : j \in 1..Len(inp.busy) }
        E == { evaluated[k] : k \in 1..Len(evaluated) }
    IN  /\ \E c \in E : c.free /\ \E b \in B : BufferedEndOf(c.start) = b.start
        /\ \E c \in E : c.free /\ \E b \in B : BufferedStartOf(c.start) = b.end
        /\ \E c \in E : ~ c.free /\ \E b \in B :
               /\ Intersects(BufferedStartOf(c.start), BufferedEndOf(c.start), b)
               /\ OverlapMs(BufferedStartOf(c.start), BufferedEndOf(c.start), b) = 1

\* The search starts today and the clock is past startHour:00 of that day.
TodayPastStartHour ==
    /\ LocalMidnight(inp.now, timezone) = LocalMidnight(inp.startDate, timezone)
    /\ inp.now > WallClockAt(inp.startDate, startHour, timezone)

\* The first half-hour boundary of the search zone strictly after t.
NextHalfHourAfter(t) ==
    t - (LocalMs(t, timezone) % (30 * MinuteMs)) + 30 * MinuteMs

\* C4: in a today search past startHour, no returned slot starts before the
\* first half-hour boundary strictly after now (so none starts before now).
C4_TodayPastTimeProtection ==
    (Returned /\ TodayPastStartHour) =>
        \A t \in ResultStarts : t >= NextHalfHourAfter(inp.now)

\* C5: without notAfter, every returned slot starts at or after startHour
\* and its buffered end is not later than endHour:00 of the slot's own day.
C5_HourBounds ==
    (Returned /\ inp.notAfter = {}) =>
        \A t \in ResultStarts :
            /\ WallHour(t, timezone) >= startHour
            /\ BufferedEndOf(t) <= WallClockAt(t, endHour, timezone)

\* Not a single-day search: the window's ends are on different local dates
\* and it is at least 24 hours long.
MultiDaySearch ==
    /\ LocalMidnight(inp.startDate, timezone) # LocalMidnight(inp.endDate, timezone)
    /\ inp.endDate - inp.startDate >= DayMs

\* C6: no returned slot is on an excluded weekday and, unless the search is
\* a single-day search, none is on a Saturday or Sunday.
C6_WeekdayExclusion ==
    Returned =>
        \A t \in ResultStarts :
            /\ WallWeekday(t, timezone) \notin inp.excludeDays
            /\ MultiDaySearch => WallWeekday(t, timezone) \notin {0, 6}

\* C6 witness: a single-day search returned a Saturday slot.
C6_Witness ==
    /\ Returned /\ ~ MultiDaySearch
    /\ \E t \in ResultStarts : WallWeekday(t, timezone) = 6

\* C7: setHourInTimezone(date, hour, zone) is the instant whose wall-clock
\* time in zone is hour:00:00.000 on date's local calendar date.
C7_SetHourExact ==
    pc = "applied" => currentTime = WallClockAt(inp.date, inp.hour, inp.timezone)

\* C8: every call of the scan reaches its exit.
C8_ScanTerminates == <>(pc \in {"done", "error"})

\* C9: after a failed free/busy query the call has thrown: no slot list was
\* returned and no step of the scan ran.
C9_QueryFailureSurfaces ==
    queryState = "rejected" =>
        /\ pc = "error" /\ outcome = "thrown"
        /\ result = <<>> /\ freeSlots = <<>> /\ evaluated = <<>> /\ tick = 0

\* C9 witness: the query was rejected and the call threw.
C9_Witness == queryState = "rejected" /\ outcome = "thrown"

\* The end-to-end scenario: busy 10:00-11:00Z on 2024-02-06, the window that
\* day 00:00Z to the next 00:00Z, UTC, 30 minutes, default hours 9..18, no
\* buffers, no excluded days, and a clock on another day.
EndToEndScenario ==
    /\ inp.busy = <<Interval(At(Tue, 10, 0, 0, 0), At(Tue, 11, 0, 0, 0))>>
    /\ inp.startDate = At(Tue, 0, 0, 0, 0) /\ inp.endDate = At(Tue + 1, 0, 0, 0, 0)
    /\ inp.timezone = {"UTC"} /\ inp.duration = 30
    /\ inp.notBefore = {} /\ inp.notAfter = {} /\ inp.timePreference = {}
    /\ inp.bufferBefore = 0 /\ inp.bufferAfter = 0 /\ inp.excludeDays = {}
    /\ inp.now = FarPast

\* C10: in the end-to-end scenario the first slot is 09:00-09:30, no slot
\* intersects 10:00-11:00, and the first slot after the busy period is
\* 11:00-11:30.
C10_EndToEnd ==
    (Returned /\ EndToEndScenario) =>
        /\ result # <<>>
        /\ result[1] = [start |-> At(Tue, 9, 0, 0, 0), end |-> At(Tue, 9, 30, 0, 0),
                        available |-> TRUE]
        /\ \A i \in 1..Len(result) :
               ~ Intersects(result[i].start, result[i].end, inp.busy[1])
        /\ \E i \in 1..Len(result) :
               /\ result[i].start = At(Tue, 11, 0, 0, 0)
               /\ result[i].end = At(Tue, 11, 30, 0, 0)
               /\ \A j \in 1..Len(result) :
                      result[j].start >= At(Tue, 11, 0, 0, 0) => j >= i

\* C11 as stated: the loop never evaluates an 11th candidate.
C11_ExplorationCap == Len(evaluated) <= 10

\* C11 amended: the loop stops once 10 free slots are collected; candidates
\* judged busy do not count, so more than 10 candidates can be evaluated.
C11_FreeSlotCap ==
    /\ Len(freeSlots) <= 10
    /\ Len(freeSlots) = Cardinality({ k \in 1..Len(evaluated) : evaluated[k].free })
    /\ (pc = "done" /\ Returned) =>
           (Len(freeSlots) = 10 \/ currentTime >= inp.endDate)

\* C11 witness: a scan that stopped at its 10th free slot after evaluating
\* more than 10 candidates.
C11_Witness == Returned /\ Len(freeSlots) = 10 /\ Len(evaluated) > 10

\* C12: every returned slot starts inside the caller's window.
C12_SlotsInsideWindow ==
    Returned =>
        \A t \in ResultStarts : inp.startDate <= t /\ t < inp.endDate

C14_NotAfterStartBound ==
    (Returned /\ inp.notAfter # {}) =>
        \A t \in ResultStarts :
            t <= WallClockAt(t, Some(inp.notAfter), timezone)

\* The event a call named, before and after the call.
TargetBefore == EventsWithId(last.before, Some(last.args.eventId))
TargetAfter == EventsWithId(calendar, Some(last.args.eventId))

\* C15: createMeeting with start T and duration D submits end = T + D
\* minutes, and updateMeeting given startTime and duration D submits
\* start = newStart and end = newStart + D minutes; what the provider then
\* stores is the same.
C15_EndTimeDerivation ==
    /\ last.op = "createMeeting" =>
           LET T == Some(last.args.startTime)
               D == Some(last.args.duration)
               body == Some(last.request)
           IN  /\ FromDateTime(body.start.dateTime) = T
               /\ FromDateTime(body.end.dateTime) = T + D * MinuteMs
               /\ last.response = "ok" =>
                      \E e \in calendar :
                          /\ e.id \in last.value
                          /\ e.start = T /\ e.end = T + D * MinuteMs
    /\ (last.op = "updateMeeting" /\ last.args.startTime # {}
            /\ last.args.duration # {}) =>
           LET S == Some(last.args.startTime)
               D == Some(last.args.duration)
               body == Some(last.request)
           IN  /\ {"start", "end"} \subseteq DOMAIN body
               /\ FromDateTime(body["start"].dateTime) = S
               /\ FromDateTime(body["end"].dateTime) = S + D * MinuteMs
               /\ last.response = "ok" =>
                      \A e \in TargetAfter :
                          e.start = S /\ e.end = S + D * MinuteMs

\* C15 witness: an update with a new start and a duration moved an event
\* whose old end was not the new end.
C15_Witness ==
    /\ last.op = "updateMeeting" /\ last.response = "ok"
    /\ last.args.startTime # {} /\ last.args.duration # {}
    /\ \E o \in TargetBefore, e \in TargetAfter :
           /\ e.end # o.end
           /\ e.end - e.start # o.end - o.start

\* C16: deleteMeeting on an id that does not exist throws an error that
\* differs from the one thrown when the provider is unreachable, leaves
\* the calendar as it was, and would do the same again.
C16_DeleteNotFound ==
    (last.op = "deleteMeeting" /\ last.response = "notFound") =>
        /\ last.outcome = "thrown"
        /\ last.error # deleteMeetingCatch("unreachable")
        /\ calendar = last.before
        /\ ResponseFor(calendar, Some(last.args.eventId), "none") = "notFound"

\* C17: createMeeting rejected with a 401 throws the authentication-expired
\* error, which no other provider failure produces.
C17_CreateAuthExpired ==
    (last.op = "createMeeting" /\ last.response = "unauthorized") =>
        /\ last.outcome = "thrown"
        /\ last.error = AuthExpiredMessage
        /\ \A f \in ProviderFaults \ {"none", "unauthorized"} :
               createMeetingCatch(f) # last.error

\* C18: updateMeeting with a duration and no startTime either throws and
\* changes nothing, or returns having moved the event's end to its existing
\* start plus the duration.
C18_DurationOnlyUpdate ==
    (last.op = "updateMeeting" /\ last.args.duration # {}
         /\ last.args.startTime = {}) =>
        IF last.outcome = "thrown"
        THEN calendar = last.before
        ELSE /\ TargetBefore # {}
             /\ \A o \in TargetBefore : \E e \in TargetAfter :
                    e.end = o.start + Some(last.args.duration) * MinuteMs

\* What an update supplied for each key of the patch.
SuppliedFor(key) ==
    CASE key = "summary"     -> last.args.title # {}
      [] key = "description" -> last.args.description # {}
      [] key = "start"       -> last.args.startTime # {}
      [] key = "end"         -> last.args.duration # {}

\* C19: the patch of updateMeeting holds a key only when its input was
\* supplied, and every field of every event whose input was absent keeps
\* its value.
C19_PartialUpdate ==
    last.op = "updateMeeting" =>
        /\ \A key \in DOMAIN Some(last.request) : SuppliedFor(key)
        /\ \A o \in last.before \ TargetBefore : o \in calendar
        /\ Cardinality(calendar) = Cardinality(last.before)
        /\ \A o \in TargetBefore : \E e \in TargetAfter :
               /\ last.args.title = {} => e.summary = o.summary
               /\ last.args.description = {} => e.description = o.description
               /\ last.args.startTime = {} => e.start = o.start
               /\ (last.args.startTime = {} \/ last.args.duration = {}) =>
                      e.end = o.end

\* C19 witness: an update that supplied only a title renamed an event and
\* kept its description, start and end.
C19_Witness ==
    /\ last.op = "updateMeeting" /\ last.response = "ok"
    /\ DOMAIN Some(last.request) = {"summary"}
    /\ \E o \in TargetBefore, e \in TargetAfter :
           /\ e.summary # o.summary
           /\ o.description # {} /\ e.description = o.description
           /\ e.start = o.start /\ e.end = o.end

\* C20: a call that names an unknown timezone ends in an error, for
\* getLastMeetingOfDay and for findAvailableSlotsAdvanced alike.
C20_UnknownZoneFails ==
    /\ (last.op = "getLastMeetingOfDay" /\ last.args.timeZone = {UnknownZone}) =>
           last.outcome = "thrown"
    /\ (pc \in {"done", "error"} /\ timezone \notin Zones) =>
           outcome = "thrown"

\* The provider's events that match the query and window of the last search.
ProviderMatches ==
    LET a == last.args
        lo == IF a.startDate # {} THEN Some(a.startDate) ELSE Some(a.now)
    IN  { e \in last.before :
            /\ Matches(e, Some(a.query))
            /\ e.end > lo
            /\ a.endDate # {} => e.start < Some(a.endDate) }

\* C21: searchEvents never throws; when the provider fails it returns the
\* empty list, and when the provider answers it returns exactly the
\* provider's matching events.
C21_SearchNeverThrows ==
    last.op = "searchEvents" =>
        /\ last.outcome = "returned"
        /\ \E items \in last.value :
               IF last.fault # "none" THEN items = <<>>
               ELSE /\ { items[i].id : i \in DOMAIN items } =
                          { e.id : e \in ProviderMatches }
                    /\ Len(items) = Cardinality(ProviderMatches)

\* C21 witness: a search whose provider call failed returned [] although
\* the calendar held a matching event.
C21_Witness ==
    /\ last.op = "searchEvents" /\ last.fault # "none"
    /\ last.outcome = "returned" /\ last.value = {<<>>}
    /\ ProviderMatches # {}

\* The events the provider lists for the local day of the date the last
\* getLastMeetingOfDay call named.
LocalDayEvents ==
    LET zone == IF last.args.timeZone = {} THEN "Asia/Kolkata"
                ELSE Some(last.args.timeZone)
        dayStart == LocalMidnight(Some(last.args.date), zone)
    IN  ListedEvents(last.before, dayStart, dayStart + DayMs - 1)

\* C22: getLastMeetingOfDay in a known zone returns an event of the local
\* day [00:00:00.000, 23:59:59.999] with maximal end, and null when the day
\* has no events or the provider call fails.
C22_LastMeetingOfLocalDay ==
    (last.op = "getLastMeetingOfDay" /\ last.args.timeZone # {UnknownZone}) =>
        /\ last.outcome = "returned"
        /\ IF last.fault # "none" \/ LocalDayEvents = {}
           THEN last.value = {}
           ELSE /\ last.value # {} /\ last.value \subseteq LocalDayEvents
                /\ \A e \in last.value, o \in LocalDayEvents : o.end <= e.end

\* The hour the claim's table gives a time preference.
PreferenceHour ==
    IF inp.timePreference = {"afternoon"} THEN 13
    ELSE IF inp.timePreference = {"evening"} THEN 17
    ELSE 9

\* The end-of-slot test of a candidate that starts at t, whoever set endHour.
EndOfSlotTest(t) ==
    LET slotEnd == t + (inp.duration + inp.bufferAfter) * MinuteMs
    IN  \/ getHourInTimezone(slotEnd, timezone) > endHour
        \/ (getHourInTimezone(slotEnd, timezone) = endHour /\ getMinutes(slotEnd) > 0)

\* C23: startHour is notBefore when supplied (0 included) and else the hour
\* of the preference; endHour is notAfter when supplied (0 included) and
\* else 18; a candidate that fails the end-of-slot test is evaluated only
\* when notAfter was supplied, and is pruned otherwise.
C23_ConstraintNormalization ==
    /\ startHour = IF inp.notBefore # {} THEN Some(inp.notBefore) ELSE PreferenceHour
    /\ endHour = IF inp.notAfter # {} THEN Some(inp.notAfter) ELSE 18
    /\ \A k \in 1..Len(evaluated) :
           EndOfSlotTest(evaluated[k].start) => inp.notAfter # {}
    /\ (pc = "loop" /\ LoopCondition /\ timezone \in Zones) =>
           (SlotEndExceeds(currentTime) <=>
                (inp.notAfter = {} /\ EndOfSlotTest(currentTime)))

\* C23 witness: a search with notBefore = 0 and notAfter = 0 returned after
\* evaluating, from hour 0, a candidate that fails the end-of-slot test.
C23_Witness ==
    /\ Returned /\ inp.notBefore = {0} /\ inp.notAfter = {0}
    /\ startHour = 0 /\ endHour = 0
    /\ \E k \in 1..Len(evaluated) :
           /\ WallHour(evaluated[k].start, timezone) = 0
           /\ EndOfSlotTest(evaluated[k].start)

\* C24: a second run of the same search on a host in another zone returns
\* the slot list the first run returned.
C24_HostZoneIndependence ==
    (pc = "done" /\ firstRun # {}) => result = Some(firstRun)

C27_SingleQueryNoRetry ==
    /\ queries <= 1
    /\ pc \in {"scan", "loop", "done"} => queries = 1 /\ queryState = "resolved"
    /\ pc = "error" => queries = 1
    /\ queryState = "rejected" => pc = "error" /\ outcome = "thrown"
    /\ last.op \in {"createMeeting", "updateMeeting", "deleteMeeting"} =>
           last.providerCalls = 1

\* C27 witness: a search ended on its rejected query after one query, and a
\* delete that the provider failed made one provider call.
C27_Witness ==
    /\ pc = "error" /\ queryState = "rejected" /\ queries = 1
    /\ last.op = "deleteMeeting" /\ last.outcome = "thrown"
    /\ last.providerCalls = 1

Evening7Search ==
    /\ inp.timePreference = {"evening"} /\ inp.notBefore = {19}
    /\ inp.notAfter = {} /\ inp.excludeDays = {} /\ inp.busy = <<>>
    /\ timezone \in Zones
    /\ inp.startDate = LocalMidnight(inp.startDate, timezone)
    /\ inp.endDate >= inp.startDate + DayMs
    /\ WallWeekday(inp.startDate, timezone) \in 1..5
    /\ inp.now < inp.startDate

\* C28: an 'after 7 PM' evening search over a free weekday returns at
\* least one slot, and every returned slot starts at or after 19:00 in the
\* search timezone.
C28_EveningAfterSeven ==
    (Returned /\ Evening7Search) =>
        /\ Len(result) >= 1
        /\ \A t \in ResultStarts : WallHour(t, timezone) >= 19

\* C29: every loop iteration moves the cursor forward.
C29_CursorAdvances ==
    [][(pc = "loop" /\ pc' = "loop") => currentTime' > currentTime]_vars

\* C30: every returned slot starts on a half-hour boundary of the search
\* timezone: minutes 00 or 30, seconds and milliseconds 0.
C30_HalfHourStarts ==
    Returned =>
        \A t \in ResultStarts : LocalMs(t, timezone) % (30 * MinuteMs) = 0

====
